---- MODULE Spec2Model ----
(***************************************************************************)
(* ntl::RandomTwister (ntlRandom.hpp): a move-only wrapper that owns a     *)
(* heap-allocated std::mt19937 through a std::unique_ptr and samples from  *)
(* it with temporary <random> distributions.                               *)
(*                                                                         *)
(* The engine is a Mersenne twister scaled down to WordBits-bit words and  *)
(* StateSize state words; the distributions follow the algorithms of the   *)
(* standard library (rejection sampling for uniform_int, two draws per     *)
(* canonical real, Marsaglia polar method for normal).  Real results are   *)
(* exact rationals over CanonDen.                                          *)
(***************************************************************************)
EXTENDS Integers, Sequences, FiniteSets, TLC

\* ------------------------------------------------------------ bounds
NumInst == 2          \* RandomTwister objects that can exist at once
MaxSeed == 2          \* seeds are 1..MaxSeed
MaxOps == 4           \* operations in one run

\* ------------------------------------------------- scaled engine_type
WordBits == 5         \* w  (32 in mt19937)
StateSize == 3        \* n  (624)
ShiftSize == 2        \* m  (397)
MaskBits == 2         \* r  (31)
XorMask == 23         \* a
TemperU == 3          \* u
TemperS == 1          \* s
TemperB == 22         \* b
TemperT == 2          \* t
TemperC == 24         \* c
TemperL == 3          \* l
InitMult == 13        \* f
IntBits == 6          \* width of IntegerT in uniform_int<IntegerT>
LoopFuel == 8         \* iterations allowed to a rejection loop

RECURSIVE Pow2(_)
Pow2(k) == IF k = 0 THEN 1 ELSE 2 * Pow2(k - 1)

WordMod == Pow2(WordBits)
UMod == Pow2(IntBits)
CanonDen == WordMod * WordMod

RECURSIVE Xor(_, _)
Xor(a, b) ==
    IF a = 0 THEN b
    ELSE IF b = 0 THEN a
    ELSE (((a % 2) + (b % 2)) % 2) + 2 * Xor(a \div 2, b \div 2)

RECURSIVE And(_, _)
And(a, b) ==
    IF a = 0 \/ b = 0 THEN 0
    ELSE ((a % 2) * (b % 2)) + 2 * And(a \div 2, b \div 2)

Shl(a, k) == (a * Pow2(k)) % WordMod
Shr(a, k) == a \div Pow2(k)

LowerMask == Pow2(MaskBits) - 1
UpperMask == (WordMod - 1) - LowerMask

\* An engine: the state words x (x[1] is _M_x[0]) and the position idx (_M_p).
\* A cell of the heap that holds no engine has live = FALSE.
NoEngine == [live |-> FALSE, x |-> [k \in 1..StateSize |-> 0], idx |-> 0]

RECURSIVE SeedWords(_, _)
SeedWords(xs, i) ==
    IF i >= StateSize THEN xs
    ELSE LET p == xs[i]
             v == (InitMult * Xor(p, Shr(p, WordBits - 2)) + (i % StateSize)) % WordMod
         IN SeedWords(Append(xs, v), i + 1)

\* engine_type(seed) and engine_type::seed(seed): every word and the position
\* are rewritten from the seed alone.
EngineSeed(s) ==
    LET xs == SeedWords(<<s % WordMod>>, 1)
    IN [live |-> TRUE, x |-> [k \in 1..StateSize |-> xs[k]], idx |-> StateSize]

\* _M_gen_rand: the in-place twist, word k from words k+1 and k+m (mod n).
RECURSIVE Twist(_, _)
Twist(x, k) ==
    IF k >= StateSize THEN x
    ELSE LET y == And(x[k + 1], UpperMask) + And(x[((k + 1) % StateSize) + 1], LowerMask)
             v == Xor(Xor(x[((k + ShiftSize) % StateSize) + 1], Shr(y, 1)),
                      IF y % 2 = 1 THEN XorMask ELSE 0)
         IN Twist([x EXCEPT ![k + 1] = v], k + 1)

GenRand(st) == [st EXCEPT !.x = Twist(st.x, 0), !.idx = 0]

Temper(z0) ==
    LET z1 == Xor(z0, Shr(z0, TemperU))
        z2 == Xor(z1, And(Shl(z1, TemperS), TemperB))
        z3 == Xor(z2, And(Shl(z2, TemperT), TemperC))
    IN Xor(z3, Shr(z3, TemperL))

\* engine_type::operator(): one WordBits-bit draw and the advanced engine.
Draw(st) ==
    LET s1 == IF st.idx >= StateSize THEN GenRand(st) ELSE st
    IN [val |-> Temper(s1.x[s1.idx + 1]), st |-> [s1 EXCEPT !.idx = @ + 1]]

\* ------------------------------------------------------ distributions
\* Every sampler returns [val |-> the value, st |-> the engine after the draws].
\* Values are tagged tuples: <<"int", v>>, <<"real", numerator over CanonDen>>,
\* <<"normal", mean, sigma, y, r2>> (the result is mean + sigma * y * sqrt(-2 ln(r2) / r2)
\* with y over CanonDen and r2 over CanonDen^2), <<"stuck">> when a rejection
\* loop used up LoopFuel.

UrngRange == WordMod - 1

\* Mutant of DownScale: the draw is scaled without the rejection test.
MutDownScaleNoReject(st, past, scaling, fuel) ==
    LET d == Draw(st)
    IN [ok |-> TRUE, val |-> d.val \div scaling, st |-> d.st]

RECURSIVE DownScale(_, _, _, _)
DownScale(st, past, scaling, fuel) ==
    IF fuel = 0 THEN [ok |-> FALSE, val |-> 0, st |-> st]
    ELSE LET d == Draw(st)
         IN IF d.val < past
            THEN [ok |-> TRUE, val |-> d.val \div scaling, st |-> d.st]
            ELSE DownScale(d.st, past, scaling, fuel - 1)

\* uniform_int_distribution::operator() on the unsigned range [0, urange].
RECURSIVE UniformU(_, _, _)
UniformU(st, urange, fuel) ==
    IF UrngRange > urange
    THEN LET uerange == urange + 1
             scaling == UrngRange \div uerange
         IN DownScale(st, uerange * scaling, scaling, fuel)
    ELSE IF UrngRange < urange
    THEN IF fuel = 0 THEN [ok |-> FALSE, val |-> 0, st |-> st]
         ELSE LET hi == UniformU(st, urange \div (UrngRange + 1), fuel)
                  tmp == ((UrngRange + 1) * hi.val) % UMod
                  d == Draw(hi.st)
                  ret == (tmp + d.val) % UMod
              IN IF ~hi.ok THEN hi
                 ELSE IF ret > urange \/ ret < tmp
                 THEN UniformU(d.st, urange, fuel - 1)
                 ELSE [ok |-> TRUE, val |-> ret, st |-> d.st]
    ELSE LET d == Draw(st) IN [ok |-> TRUE, val |-> d.val, st |-> d.st]

ToSigned(u) == IF u >= UMod \div 2 THEN u - UMod ELSE u

\* std::uniform_int_distribution<IntegerT>(lo, hi)(engine)
UniformIntDist(st, lo, hi) ==
    LET r == UniformU(st, (hi - lo) % UMod, LoopFuel)
    IN [val |-> IF r.ok THEN <<"int", ToSigned((r.val + lo) % UMod)>> ELSE <<"stuck">>,
        st |-> r.st]

\* std::generate_canonical: two draws, the first the low-order word.
GenCanonical(st) ==
    LET d1 == Draw(st)
        d2 == Draw(d1.st)
    IN [val |-> d1.val + d2.val * WordMod, st |-> d2.st]

\* std::uniform_real_distribution<RealT>(lo, hi)(engine)
UniformRealDist(st, lo, hi) ==
    LET c == GenCanonical(st)
    IN [val |-> <<"real", lo * CanonDen + c.val * (hi - lo)>>, st |-> c.st]

\* std::normal_distribution<double>(mean, sigma)(engine): the polar method.
RECURSIVE NormalLoop(_, _, _, _)
NormalLoop(st, mean, sigma, fuel) ==
    IF fuel = 0 THEN [val |-> <<"stuck">>, st |-> st]
    ELSE LET cx == GenCanonical(st)
             cy == GenCanonical(cx.st)
             x == 2 * cx.val - CanonDen
             y == 2 * cy.val - CanonDen
             r2 == x * x + y * y
         IN IF r2 > CanonDen * CanonDen \/ r2 = 0
            THEN NormalLoop(cy.st, mean, sigma, fuel - 1)
            ELSE [val |-> <<"normal", mean, sigma, y, r2>>, st |-> cy.st]

NormalDist(st, mean, sigma) == NormalLoop(st, mean, sigma, LoopFuel)

\* The sampling calls of the model: <<method, first argument, second argument>>.
IntArgs == {<<1, 6>>}
RealArgs == {<<0 - 1, 2>>}
NormalArgs == {<<0, 1>>}
Calls ==
    {<<"uniform_int", a[1], a[2]>> : a \in IntArgs}
    \cup {<<"uniform_real", a[1], a[2]>> : a \in RealArgs}
    \cup {<<"uniform_probability", 0, 1>>}
    \cup {<<"normal_real", a[1], a[2]>> : a \in NormalArgs}

\* What a sampling call computes from the engine it is given.
Sample(st, c) ==
    CASE c[1] = "uniform_int" -> UniformIntDist(st, c[2], c[3])
      [] c[1] = "uniform_real" -> UniformRealDist(st, c[2], c[3])
      [] c[1] = "uniform_probability" -> UniformRealDist(st, 0, 1)
      [] OTHER -> NormalDist(st, c[2], c[3])

\* ------------------------------------------------------- program state
Inst == 1..NumInst            \* the RandomTwister objects of the program
Temp == 0                     \* the local `temp` of operator=
AllInst == Inst \cup {Temp}
Cells == 1..NumInst           \* heap cells that can hold an engine_type
Null == 0                     \* an empty unique_ptr
Seeds == 1..MaxSeed

VARIABLES
    eng,        \* eng[i]: the engine member of object i, a cell or Null
    heap,       \* heap[e]: the engine_type in cell e, NoEngine when free
    alive,      \* alive[i]: object i is constructed and not yet destroyed
    crashed,    \* the process died dereferencing an empty unique_ptr
    movedFrom,  \* history: i has been the source of a move into another object
    origin,     \* history: the seed object i's engine was last given, and how
    calls,      \* history: the sampling calls on i since that seeding
    outs,       \* history: what those calls returned
    ops,        \* history: number of operations so far
    lastOp      \* history: <<operation, object, other object>> of the last step

vars == <<eng, heap, alive, crashed, movedFrom, origin, calls, outs, ops, lastOp>>

\* The history origin, calls, outs is kept for the objects a run starts with
\* (InitConstructed) for as long as they keep the engine they were given.
\* origin[i].how is "ctor" after RandomTwister(seed), "seed" after seed(seed)
\* (prior: the calls recorded when it was reseeded, was: the seed it had then)
\* and "none" for an object whose history is not kept.
NoOrigin == [how |-> "none", seed |-> 0, prior |-> 0, was |-> 0]
Origin(h, s, p, w) == [how |-> h, seed |-> s, prior |-> p, was |-> w]

Mem == [eng |-> eng, heap |-> heap]
EngineOf(i) == IF eng[i] = Null THEN NoEngine ELSE heap[eng[i]]
FreeCells == {e \in Cells : ~heap[e].live}
\* new engine_type: the allocator hands out the lowest free cell.
NewCell == CHOOSE e \in FreeCells : \A f \in FreeCells : e <= f

\* ------------------------------------------- std::unique_ptr<engine_type>
\* release(): the member gives up its pointer.
PtrRelease(m, i) == [m EXCEPT !.eng[i] = Null]

\* reset(p): the member takes p and deletes what it held before.
PtrReset(m, i, p) ==
    LET old == m.eng[i]
    IN [eng |-> [m.eng EXCEPT ![i] = p],
        heap |-> IF old = Null THEN m.heap ELSE [m.heap EXCEPT ![old] = NoEngine]]

\* unique_ptr(unique_ptr&& u): takes u.release().
PtrMoveConstruct(m, dst, src) ==
    LET p == m.eng[src]
        m1 == PtrRelease(m, src)
    IN [m1 EXCEPT !.eng[dst] = p]

\* operator=(unique_ptr&& u): reset(u.release()).
PtrMoveAssign(m, dst, src) ==
    LET p == m.eng[src]
    IN PtrReset(PtrRelease(m, src), dst, p)

\* std::swap(a, b): tmp(move(a)); a = move(b); b = move(tmp).
PtrSwap(m, a, b) ==
    LET tmp == m.eng[a]
        m1 == PtrRelease(m, a)
        m2 == PtrMoveAssign(m1, a, b)
    IN PtrReset(m2, b, tmp)

\* ----------------------------------------------------- RandomTwister
\* Mutant of RandomTwisterSeeded: the seed is mixed with the address of the
\* allocation.
MutSeededByAddress(m, this, e, s) ==
    [eng |-> [m.eng EXCEPT ![this] = e],
     heap |-> [m.heap EXCEPT ![e] = EngineSeed(s + e)]]

\* RandomTwister(unsigned long seed): engine(new engine_type(seed)), in cell e.
RandomTwisterSeeded(m, this, e, s) ==
    [eng |-> [m.eng EXCEPT ![this] = e],
     heap |-> [m.heap EXCEPT ![e] = EngineSeed(s)]]

\* RandomTwister(): engine(new engine_type(std::random_device()())); rd is
\* the value the random device returned.
RandomTwisterDefault(m, this, e, rd) ==
    [eng |-> [m.eng EXCEPT ![this] = e],
     heap |-> [m.heap EXCEPT ![e] = EngineSeed(rd)]]

\* Mutant of MoveConstruct: the engine member is default-initialised and
\* other's engine is not taken.
MutMoveLeavesEmpty(m, this, other) == [m EXCEPT !.eng[this] = Null]

\* Mutant of MoveConstruct: the pointer is copied and other keeps it.
MutMoveShares(m, this, other) == [m EXCEPT !.eng[this] = m.eng[other]]

\* RandomTwister(RandomTwister&& other): engine(std::move(other.engine)).
MoveConstruct(m, this, other) == PtrMoveConstruct(m, this, other)

\* Mutant of Swap: this->engine = std::move(other.engine), nothing goes back.
MutSwapOneWay(m, this, other) == PtrMoveAssign(m, this, other)

\* void swap(RandomTwister& other): swap(this->engine, other.engine).
Swap(m, this, other) == PtrSwap(m, this, other)

\* Mutant of NonMemberSwap: lhs.swap(lhs).
MutNonMemberSwapSelf(m, lhs, rhs) == PtrSwap(m, lhs, lhs)

\* ntl::swap(lhs, rhs): lhs.swap(rhs).
NonMemberSwap(m, lhs, rhs) == Swap(m, lhs, rhs)

\* ~RandomTwister() = default: the unique_ptr deletes its engine.
Destructor(m, this) == PtrReset(m, this, Null)

\* Mutant of MoveAssign: swap(other), the old engine goes to other.
MutAssignBySwap(m, this, other) == PtrSwap(m, this, other)

\* Mutant of MoveAssign: engine.release(); engine = std::move(other.engine).
MutAssignLeaks(m, this, other) == PtrMoveAssign(PtrRelease(m, this), this, other)

\* operator=(RandomTwister&& other): temp(std::move(other)); temp.swap(*this);
\* and temp is destroyed on return.
MoveAssign(m, this, other) ==
    LET m1 == MoveConstruct(m, Temp, other)
        m2 == Swap(m1, Temp, this)
    IN Destructor(m2, Temp)

\* Mutant of SeedEngine: the words are rewritten, the position is kept.
MutSeedKeepsPosition(m, this, s) ==
    [m EXCEPT !.heap[m.eng[this]] = [EngineSeed(s) EXCEPT !.idx = m.heap[m.eng[this]].idx]]

\* seed(_seed): engine->seed(_seed), on an object that owns an engine.
SeedEngine(m, this, s) == [m EXCEPT !.heap[m.eng[this]] = EngineSeed(s)]

\* Mutant of SampleWith: one engine state shared by every object.
MutSampleShared(m, this, r) ==
    [val |-> r.val,
     m |-> [m EXCEPT !.heap = [e \in Cells |-> IF m.heap[e].live THEN r.st ELSE m.heap[e]]]]

\* The four sampling methods on an object that owns an engine: a temporary
\* distribution applied to *engine.  [val |-> returned, m |-> memory after].
SampleWith(m, this, r) == [val |-> r.val, m |-> [m EXCEPT !.heap[m.eng[this]] = r.st]]

uniform_int(m, this, lo, hi) ==
    SampleWith(m, this, UniformIntDist(m.heap[m.eng[this]], lo, hi))

uniform_real(m, this, lo, hi) ==
    SampleWith(m, this, UniformRealDist(m.heap[m.eng[this]], lo, hi))

uniform_probability(m, this) ==
    SampleWith(m, this, UniformRealDist(m.heap[m.eng[this]], 0, 1))

normal_real(m, this, mean, sigma) ==
    SampleWith(m, this, NormalDist(m.heap[m.eng[this]], mean, sigma))

\* ------------------------------------------------------------- actions
Init ==
    /\ eng = [i \in AllInst |-> Null]
    /\ heap = [e \in Cells |-> NoEngine]
    /\ alive = [i \in Inst |-> FALSE]
    /\ crashed = FALSE
    /\ movedFrom = [i \in Inst |-> FALSE]
    /\ origin = [i \in Inst |-> NoOrigin]
    /\ calls = [i \in Inst |-> <<>>]
    /\ outs = [i \in Inst |-> <<>>]
    /\ ops = 0
    /\ lastOp = <<"init", 0, 0>>

SetMem(m) == eng' = m.eng /\ heap' = m.heap
SetMemNow(m) == eng = m.eng /\ heap = m.heap

\* Every operation needs the process alive and uses up one of the run's MaxOps.
Step(name, a, b) ==
    /\ ~crashed /\ ops < MaxOps
    /\ ops' = ops + 1
    /\ lastOp' = <<name, a, b>>

\* The history of objects a and b is dropped: the engine each holds, if any,
\* is no longer the one it was seeded with.
Forget(a, b) ==
    /\ origin' = [origin EXCEPT ![a] = NoOrigin, ![b] = NoOrigin]
    /\ calls' = [calls EXCEPT ![a] = <<>>, ![b] = <<>>]
    /\ outs' = [outs EXCEPT ![a] = <<>>, ![b] = <<>>]

\* RandomTwister r(s);
Construct(i, s) ==
    /\ Step("construct", i, 0)
    /\ ~alive[i] /\ FreeCells # {}
    /\ SetMem(RandomTwisterSeeded(Mem, i, NewCell, s))
    /\ alive' = [alive EXCEPT ![i] = TRUE]
    /\ UNCHANGED <<crashed, movedFrom, origin, calls, outs>>

\* RandomTwister r;  (the random device returns some rd)
ConstructDefault(i) ==
    /\ Step("construct_default", i, 0)
    /\ ~alive[i] /\ FreeCells # {}
    /\ \E rd \in Seeds : SetMem(RandomTwisterDefault(Mem, i, NewCell, rd))
    /\ alive' = [alive EXCEPT ![i] = TRUE]
    /\ UNCHANGED <<crashed, movedFrom, origin, calls, outs>>

\* RandomTwister dst(std::move(src));
MoveConstructAct(dst, src) ==
    /\ Step("move_construct", dst, src)
    /\ ~alive[dst] /\ alive[src]
    /\ SetMem(MoveConstruct(Mem, dst, src))
    /\ alive' = [alive EXCEPT ![dst] = TRUE]
    /\ movedFrom' = [movedFrom EXCEPT ![src] = TRUE]
    /\ Forget(dst, src)
    /\ UNCHANGED crashed

\* dst = std::move(src);   (dst and src may be the same object)
MoveAssignAct(dst, src) ==
    /\ Step("move_assign", dst, src)
    /\ alive[dst] /\ alive[src]
    /\ SetMem(MoveAssign(Mem, dst, src))
    /\ movedFrom' = IF dst = src THEN movedFrom ELSE [movedFrom EXCEPT ![src] = TRUE]
    /\ Forget(dst, src)
    /\ UNCHANGED <<alive, crashed>>

\* a.swap(b);
SwapAct(a, b) ==
    /\ Step("swap", a, b)
    /\ alive[a] /\ alive[b]
    /\ SetMem(Swap(Mem, a, b))
    /\ Forget(a, b)
    /\ UNCHANGED <<alive, crashed, movedFrom>>

\* ntl::swap(a, b);
NonMemberSwapAct(a, b) ==
    /\ Step("ntl_swap", a, b)
    /\ alive[a] /\ alive[b]
    /\ SetMem(NonMemberSwap(Mem, a, b))
    /\ Forget(a, b)
    /\ UNCHANGED <<alive, crashed, movedFrom>>

\* r.seed(s) on an object that owns an engine.
SeedAct(i, s) ==
    /\ Step("seed", i, 0)
    /\ alive[i] /\ eng[i] # Null
    /\ SetMem(SeedEngine(Mem, i, s))
    /\ IF origin[i].how = "none"
       THEN UNCHANGED <<origin, calls, outs>>
       ELSE /\ origin' = [origin EXCEPT
                            ![i] = Origin("seed", s, Len(calls[i]), origin[i].seed)]
            /\ calls' = [calls EXCEPT ![i] = <<>>]
            /\ outs' = [outs EXCEPT ![i] = <<>>]
    /\ UNCHANGED <<alive, crashed, movedFrom>>

\* r.seed(s) on an object whose engine member is empty: engine-> dereferences
\* a null pointer.  The process dies, or the call comes back having done nothing.
SeedNull(i) ==
    /\ Step("seed", i, 0)
    /\ alive[i] /\ eng[i] = Null
    /\ crashed' \in BOOLEAN
    /\ UNCHANGED <<eng, heap, alive, movedFrom, origin, calls, outs>>

\* The bookkeeping of a sampling call c on i that returned r.val.
Sampled(i, c, r) ==
    /\ Step(c[1], i, 0)
    /\ alive[i]
    /\ SetMem(r.m)
    /\ IF origin[i].how = "none"
       THEN UNCHANGED <<calls, outs>>
       ELSE /\ calls' = [calls EXCEPT ![i] = Append(@, c)]
            /\ outs' = [outs EXCEPT ![i] = Append(@, r.val)]
    /\ UNCHANGED <<alive, crashed, movedFrom, origin>>

UniformInt(i, lo, hi) ==
    /\ eng[i] # Null
    /\ Sampled(i, <<"uniform_int", lo, hi>>, uniform_int(Mem, i, lo, hi))

UniformReal(i, lo, hi) ==
    /\ eng[i] # Null
    /\ Sampled(i, <<"uniform_real", lo, hi>>, uniform_real(Mem, i, lo, hi))

UniformProbability(i) ==
    /\ eng[i] # Null
    /\ Sampled(i, <<"uniform_probability", 0, 1>>, uniform_probability(Mem, i))

NormalReal(i, mean, sigma) ==
    /\ eng[i] # Null
    /\ Sampled(i, <<"normal_real", mean, sigma>>, normal_real(Mem, i, mean, sigma))

\* A sampling call on an object whose engine member is empty: *engine
\* dereferences a null pointer.  The process dies, or the call returns garbage.
SampleNull(i, c) ==
    /\ Step(c[1], i, 0)
    /\ alive[i] /\ eng[i] = Null
    /\ crashed' \in BOOLEAN
    /\ UNCHANGED <<eng, heap, alive, movedFrom, origin, calls, outs>>

\* Object i goes out of scope.
Destroy(i) ==
    /\ Step("destroy", i, 0)
    /\ alive[i]
    /\ SetMem(Destructor(Mem, i))
    /\ alive' = [alive EXCEPT ![i] = FALSE]
    /\ movedFrom' = [movedFrom EXCEPT ![i] = FALSE]
    /\ Forget(i, i)
    /\ UNCHANGED crashed

Next ==
    \/ \E i \in Inst, s \in Seeds : Construct(i, s)
    \/ \E i \in Inst : ConstructDefault(i)
    \/ \E dst \in Inst, src \in Inst : MoveConstructAct(dst, src)
    \/ \E dst \in Inst, src \in Inst : MoveAssignAct(dst, src)
    \/ \E a \in Inst, b \in Inst : SwapAct(a, b)
    \/ \E a \in Inst, b \in Inst : NonMemberSwapAct(a, b)
    \/ \E i \in Inst, s \in Seeds : SeedAct(i, s)
    \/ \E i \in Inst : SeedNull(i)
    \/ \E i \in Inst, a \in IntArgs : UniformInt(i, a[1], a[2])
    \/ \E i \in Inst, a \in RealArgs : UniformReal(i, a[1], a[2])
    \/ \E i \in Inst : UniformProbability(i)
    \/ \E i \in Inst, a \in NormalArgs : NormalReal(i, a[1], a[2])
    \/ \E i \in Inst, c \in Calls : SampleNull(i, c)
    \/ \E i \in Inst : Destroy(i)

Spec == Init /\ [][Next]_vars

\* ---------------------------------------------------------------------
\* Runs that start with objects 1..n constructed by RandomTwister(seed), each
\* with a seed of its own choice, and then reseed and sample them.
RECURSIVE ConstructAll(_, _, _, _)
ConstructAll(m, sd, i, n) ==
    IF i > n THEN m
    ELSE ConstructAll(RandomTwisterSeeded(m, i, i, sd[i]), sd, i + 1, n)

InitConstructed(n) ==
    \E sd \in [1..n -> Seeds] :
        /\ SetMemNow(ConstructAll([eng |-> [i \in AllInst |-> Null],
                                   heap |-> [e \in Cells |-> NoEngine]], sd, 1, n))
        /\ alive = [i \in Inst |-> i <= n]
        /\ crashed = FALSE
        /\ movedFrom = [i \in Inst |-> FALSE]
        /\ origin = [i \in Inst |-> IF i <= n THEN Origin("ctor", sd[i], 0, 0)
                                    ELSE NoOrigin]
        /\ calls = [i \in Inst |-> <<>>]
        /\ outs = [i \in Inst |-> <<>>]
        /\ ops = 0
        /\ lastOp = <<"init", 0, 0>>

\* Two seeded objects, reseeded and sampled with every method.
Twins == {1, 2}
InitSeeded == InitConstructed(2)

NextSeeded ==
    \/ \E i \in Twins, s \in Seeds : SeedAct(i, s)
    \/ \E i \in Twins, a \in IntArgs : UniformInt(i, a[1], a[2])
    \/ \E i \in Twins, a \in RealArgs : UniformReal(i, a[1], a[2])
    \/ \E i \in Twins : UniformProbability(i)
    \/ \E i \in Twins, a \in NormalArgs : NormalReal(i, a[1], a[2])

SpecSeeded == InitSeeded /\ [][NextSeeded]_vars

\* One seeded object, reseeded and sampled with uniform_int over many ranges.
WideIntArgs ==
    {<<1, 6>>, <<3, 3>>, <<0 - 32, 31>>, <<0, 31>>, <<0 - 5, 0 - 2>>,
     <<0 - 32, 0 - 32>>, <<31, 31>>, <<0 - 1, 30>>}
InitInt == InitConstructed(1)

NextInt ==
    \/ \E s \in Seeds : SeedAct(1, s)
    \/ \E a \in WideIntArgs : UniformInt(1, a[1], a[2])

SpecInt == InitInt /\ [][NextInt]_vars

\* =====================================================================
\* Properties
\* =====================================================================
SampleOps == {"uniform_int", "uniform_real", "uniform_probability", "normal_real"}
SwapOps == {"swap", "ntl_swap"}

\* The engine object i will sample from after the step (NoEngine if none).
EngineOfNext(i) == IF eng'[i] = Null THEN NoEngine ELSE heap'[eng'[i]]

Min(x, y) == IF x <= y THEN x ELSE y

\* Wherever a and b were given the same calls up to position k, they returned
\* the same value at position k.
AgreeOnPrefix(a, b) ==
    \A k \in 1..Min(Len(calls[a]), Len(calls[b])) :
        (\A j \in 1..k : calls[a][j] = calls[b][j]) => outs[a][k] = outs[b][k]

\* ---------------------------------------------------------------- C1
\* C1: two objects constructed with RandomTwister(S) for the same S and given
\* the same sequence of sampling calls return the same value at every position.
C1_Determinism ==
    \A a \in Inst, b \in Inst :
        (/\ alive[a] /\ alive[b]
         /\ origin[a].how = "ctor" /\ origin[b].how = "ctor"
         /\ origin[a].seed = origin[b].seed)
        => AgreeOnPrefix(a, b)

\* Two objects built from the same seed have each answered the same two
\* different calls.
C1_Witness ==
    /\ alive[1] /\ alive[2]
    /\ origin[1].how = "ctor" /\ origin[2].how = "ctor"
    /\ origin[1].seed = origin[2].seed
    /\ Len(calls[1]) = 2 /\ calls[2] = calls[1]
    /\ calls[1][1] # calls[1][2]
    /\ outs[1][1] # outs[1][2]

\* ---------------------------------------------------------------- C2
\* C2: after seed(X), whatever the object's earlier seed and however many
\* samples it has produced, its sampling calls return what the same calls
\* return on an object freshly constructed with RandomTwister(X).
C2_ReseedResets ==
    \A a \in Inst, b \in Inst :
        (/\ alive[a] /\ alive[b]
         /\ origin[a].how = "seed" /\ origin[b].how = "ctor"
         /\ origin[a].seed = origin[b].seed)
        => AgreeOnPrefix(a, b)

\* An object that had sampled under another seed was reseeded with X and has
\* sampled again, next to a fresh RandomTwister(X) given the same first call.
C2_Witness ==
    \E a \in Inst, b \in Inst :
        /\ alive[a] /\ alive[b]
        /\ origin[a].how = "seed" /\ origin[b].how = "ctor"
        /\ origin[a].seed = origin[b].seed
        /\ origin[a].prior >= 1 /\ origin[a].was # origin[a].seed
        /\ Len(calls[a]) >= 1 /\ Len(calls[b]) >= 1
        /\ calls[a][1] = calls[b][1]

\* ---------------------------------------------------------------- C3
\* C3: a move-construct or move-assign from a source that owns an engine leaves
\* the destination with the engine state the source had; the samples of an
\* object are a function of its engine state (Sample), so the destination's
\* next samples are the ones the source would have produced.
C3_MoveStep ==
    LET dst == lastOp'[2]
        src == lastOp'[3]
    IN (lastOp'[1] \in {"move_construct", "move_assign"} /\ eng[src] # Null)
       => EngineOfNext(dst) = EngineOf(src)

C3_MovePreservesStream == [][C3_MoveStep]_vars

\* The last step moved an engine that had already been sampled from into
\* another object.
C3_Witness ==
    /\ lastOp[1] \in {"move_construct", "move_assign"}
    /\ lastOp[2] # lastOp[3]
    /\ eng[lastOp[2]] # Null
    /\ \A s \in Seeds : EngineOf(lastOp[2]) # EngineSeed(s)

C4_ReviveStep ==
    \A i \in Inst :
        (/\ alive[i] /\ movedFrom[i] /\ eng[i] = Null
         /\ alive'[i] /\ eng'[i] # Null)
        => \E j \in Inst :
              /\ j # i /\ eng[j] # Null
              /\ \/ lastOp'[1] \in SwapOps /\ {lastOp'[2], lastOp'[3]} = {i, j}
                 \/ lastOp' = <<"move_assign", i, j>>

C5_ValidUnlessMovedFrom ==
    \A i \in Inst : (alive[i] /\ ~movedFrom[i]) => eng[i] # Null

\* C5 amended: an object owns an engine from its construction by
\* RandomTwister(seed) or RandomTwister(), and is left without one only by
\* being the source of a move or by a swap with, a move-assignment from or a
\* move-construction from an object that owns none.
C5_LossStep ==
    \A i \in Inst :
        (/\ alive'[i] /\ eng'[i] = Null
         /\ ~alive[i] \/ eng[i] # Null)
        => \/ lastOp'[1] \in {"move_construct", "move_assign"} /\ lastOp'[3] = i
           \/ \E j \in Inst :
                 /\ j # i /\ alive[j] /\ eng[j] = Null
                 /\ \/ lastOp'[1] \in SwapOps /\ {lastOp'[2], lastOp'[3]} = {i, j}
                    \/ lastOp' = <<"move_assign", i, j>>
                    \/ lastOp' = <<"move_construct", i, j>>

C5_EngineKeptUnlessMovedOrEmptied == [][C5_LossStep]_vars

\* Two objects that own engines and were never moved from have just been
\* swapped, and both still own an engine.
C5_Witness ==
    /\ lastOp[1] \in SwapOps
    /\ lastOp[2] # lastOp[3]
    /\ \A i \in {lastOp[2], lastOp[3]} : alive[i] /\ ~movedFrom[i] /\ eng[i] # Null

\* ---------------------------------------------------------------- C6
\* C6: no two objects hold the same engine, and an engine comes into being
\* only in RandomTwister(seed) and RandomTwister(): no move, swap, seed or
\* sampling call makes another one.
C6_Exclusive ==
    \A a \in AllInst, b \in AllInst : (a # b /\ eng[a] # Null) => eng[a] # eng[b]

C6_CreationStep ==
    \A e \in Cells :
        (heap'[e].live /\ ~heap[e].live)
        => lastOp'[1] \in {"construct", "construct_default"}

C6_ExclusiveOwnership == []C6_Exclusive /\ [][C6_CreationStep]_vars

\* Two objects each own an engine right after a move or a swap.
C6_Witness ==
    /\ lastOp[1] \in SwapOps \cup {"move_construct", "move_assign"}
    /\ \E a \in Inst, b \in Inst : a # b /\ eng[a] # Null /\ eng[b] # Null

\* ---------------------------------------------------------------- C7
\* C7: every uniform_int(low, high) with low <= high returns v with
\* low <= v <= high, and exactly low when low = high.
C7_UniformIntInRange ==
    \A i \in Inst : \A k \in 1..Len(calls[i]) :
        LET c == calls[i][k]
            r == outs[i][k]
        IN (c[1] = "uniform_int" /\ c[2] <= c[3])
           => /\ r[1] = "int"
              /\ c[2] <= r[2] /\ r[2] <= c[3]
              /\ (c[2] = c[3] => r[2] = c[2])

\* One object has returned the upper bound of a range of several values, a
\* negative value of [-32, 31] and the only value of [3, 3].
C7_Witness ==
    \E i \in Inst : \E k1, k2, k3 \in 1..Len(calls[i]) :
        /\ calls[i][k1][2] < calls[i][k1][3] /\ outs[i][k1][2] = calls[i][k1][3]
        /\ calls[i][k2] = <<"uniform_int", 0 - 32, 31>> /\ outs[i][k2][2] < 0
        /\ calls[i][k3] = <<"uniform_int", 3, 3>> /\ outs[i][k3] = <<"int", 3>>

\* ---------------------------------------------------------------- C8
\* C8: a sampling call on object i changes nothing but the state of i's own
\* engine: which engine each object owns, which objects exist and which have
\* been moved from, and every other engine stay as they were.
C8_SampleStep ==
    LET i == lastOp'[2]
    IN lastOp'[1] \in SampleOps
       => /\ eng' = eng
          /\ alive' = alive
          /\ movedFrom' = movedFrom
          /\ \A e \in Cells : e # eng[i] => heap'[e] = heap[e]

C8_SamplingFrame == [][C8_SampleStep]_vars

\* The last step sampled from one object while another object owned an engine.
C8_Witness ==
    /\ lastOp[1] \in SampleOps
    /\ eng[lastOp[2]] # Null
    /\ \A s \in Seeds : EngineOf(lastOp[2]) # EngineSeed(s)
    /\ \E j \in Inst : j # lastOp[2] /\ eng[j] # Null

\* ---------------------------------------------------------------- C9
\* C9: a.swap(b) and ntl::swap(a, b) exchange the engines of a and b (an empty
\* engine member included) and touch nothing else; swapping twice restores
\* the state, and a.swap(a) changes nothing.
C9_SwapStep ==
    LET a == lastOp'[2]
        b == lastOp'[3]
    IN lastOp'[1] \in SwapOps
       => /\ eng'[a] = eng[b] /\ eng'[b] = eng[a]
          /\ \A i \in AllInst \ {a, b} : eng'[i] = eng[i]
          /\ heap' = heap
          /\ EngineOfNext(a) = EngineOf(b) /\ EngineOfNext(b) = EngineOf(a)

C9_SwapTwice ==
    \A a \in Inst, b \in Inst :
        (alive[a] /\ alive[b])
        => /\ Swap(Swap(Mem, a, b), a, b) = Mem
           /\ NonMemberSwap(NonMemberSwap(Mem, a, b), a, b) = Mem
           /\ Swap(Swap(Mem, a, b), b, a) = Mem
           /\ Swap(Mem, a, a) = Mem

C9_SwapExchanges == []C9_SwapTwice /\ [][C9_SwapStep]_vars

\* The last step swapped a moved-from object with one that owned an engine:
\* the moved-from object now owns it and the other owns none.
C9_Witness ==
    /\ lastOp[1] \in SwapOps
    /\ \E a \in Inst, b \in Inst :
          /\ {a, b} = {lastOp[2], lastOp[3]} /\ a # b
          /\ movedFrom[a] /\ eng[a] # Null
          /\ ~movedFrom[b] /\ eng[b] = Null

\* --------------------------------------------------------------- C10
\* C10: dst = move(src) with dst and src distinct leaves src without an engine,
\* dst with src's engine, and the engine dst owned before freed and owned by
\* nobody; no engine is ever left without an owner; a = move(a) leaves a's
\* engine and its state as they were.
C10_AssignStep ==
    LET dst == lastOp'[2]
        src == lastOp'[3]
    IN lastOp'[1] = "move_assign"
       => IF dst # src
          THEN /\ eng'[src] = Null
               /\ eng'[dst] = eng[src]
               /\ eng[dst] # Null
                  => /\ ~heap'[eng[dst]].live
                     /\ \A i \in AllInst : eng'[i] # eng[dst]
          ELSE eng' = eng /\ heap' = heap

C10_NoLeak ==
    \A e \in Cells : heap[e].live => \E i \in Inst : alive[i] /\ eng[i] = e

C10_MoveAssign == []C10_NoLeak /\ [][C10_AssignStep]_vars

\* The last step move-assigned one object to another; the destination owns
\* an engine, the source none, and a cell of the heap is free again.
C10_Witness ==
    /\ lastOp[1] = "move_assign"
    /\ lastOp[2] # lastOp[3]
    /\ eng[lastOp[2]] # Null /\ eng[lastOp[3]] = Null
    /\ ~movedFrom[lastOp[2]]
    /\ \A i \in Inst : alive[i]
    /\ FreeCells # {}

====
